---- MODULE Spec2Model ----
(***************************************************************************)
(* Feature_Selection.py: SimpleAdjustmentSystem (a sqlite-backed history   *)
(* of random adjustments) and the Streamlit script main() that drives it.  *)
(*                                                                         *)
(* Numbers are fixed-point: a cell value or a random value v of the        *)
(* program is the integer v * 10^(Digits+1), one decimal digit finer than  *)
(* the precision round(new_value, 5) keeps, so rounding is observable.     *)
(***************************************************************************)
EXTENDS Integers, Sequences, FiniteSets, TLC

VARIABLES
    db,                \* rows of table adjustments, in rowid order
    seq,               \* sqlite_sequence: the largest id AUTOINCREMENT gave
    clock,             \* the last reading of datetime.now()
    conn,              \* conn[s]: "open" | "closed", the session's connection
    pc,                \* pc[s]: where the session's script run stands
    uploaded,          \* uploaded[s]: the content of the uploaded file
    frames,            \* the DataFrame objects alive, by reference
    feature_selection, \* feature_selection[s]: reference read from the file
    adjusted_df,       \* adjusted_df[s]: reference made by df.copy()
    selected_features, \* selected_features[s]: the multiselect's list
    random_value,      \* random_value[s], operation[s]: what line 49 got
    operation,
    ret,               \* ret[s]: what adjust_dataframe returned (line 156)
    message,           \* message[s]: "none" | "warning" | "error"
    history,           \* history[s]: rows of the last history listing
    listed,            \* listed[s]: the run drew the history table
    stored,            \* stored[s]: id of the row this run inserted, or 0
    returned           \* number of adjusted tables returned so far

vars == <<db, seq, clock, conn, pc, uploaded, frames, feature_selection,
          adjusted_df, selected_features, random_value, operation, ret,
          message, history, listed, stored, returned>>

----------------------------------------------------------------------------
(* Bounds of the model *)

\* INSERTs one behaviour may commit in the specifications with full inputs
MaxEvents == 2

\* rows beyond LIMIT that the history specification may record
MaxExtra == 1

(* Program constants *)

\* round(new_value, 5)
Digits == 5

\* LIMIT 10
Limit == 10

One == 10 ^ (Digits + 1)

Grain == One \div (10 ^ Digits)

\* np.random.uniform(0.01, 0.1): low inclusive, high exclusive
LowRV == One \div 100

HighRV == One \div 10

\* the draws of np.random.uniform the model enumerates
RandomValues == {LowRV, 54321, HighRV - 1}

\* np.random.choice(['+', '-'])
Operations == {"+", "-"}

Sessions == {1, 2}

----------------------------------------------------------------------------
(* Uploaded spreadsheets.  A frame is its column list, each column's dtype *)
(* and its rows; an "object" column holds text, for which the number only  *)
(* names the text.                                                         *)

Columns == <<"id", "f1", "f2">>

Cell(i, a, b) == [id |-> i, f1 |-> a, f2 |-> b]

NumericDtype == [id |-> "object", f1 |-> "float64", f2 |-> "float64"]

\* Scenario A of the spec: f1 = 0.02, f2 = 0.5
TableA ==
    [columns |-> Columns, dtype |-> NumericDtype,
     rows |-> << Cell(3000001, 20000, 500000) >>]

\* values near and beyond both ends of [0,1], and off the 5-digit grid
TableB ==
    [columns |-> Columns,
     dtype |-> [id |-> "float64", f1 |-> "float64", f2 |-> "float64"],
     rows |-> << Cell(3000001, 123456, 990000),
                 Cell(3000002, 0 - 50000, 1500000),
                 Cell(3000003, 123455, One) >>]

\* f2 holds text
TableC ==
    [columns |-> Columns,
     dtype |-> [id |-> "object", f1 |-> "float64", f2 |-> "object"],
     rows |-> << Cell(3000001, 250000, 77) >>]

\* a sheet with a header and no data rows
TableE ==
    [columns |-> Columns,
     dtype |-> [id |-> "object", f1 |-> "float64", f2 |-> "object"],
     rows |-> << >>]

Tables == {TableA, TableB, TableC, TableE}

\* lines 99, 141: every column but the first
first_column_name(df) == df.columns[1]

feature_columns(df) ==
    SelectSeq(df.columns, LAMBDA c : c # first_column_name(df))

Range(f) == {f[i] : i \in DOMAIN f}

\* st.multiselect: any list of distinct options, in the order chosen
Selections(df) ==
    LET opts == Range(feature_columns(df))
    IN  {q \in UNION {[1..n -> opts] : n \in 0..Cardinality(opts)} :
            \A i, j \in DOMAIN q : i # j => q[i] # q[j]}

----------------------------------------------------------------------------
(* DataFrame objects *)

Handles == 1..(2 * Cardinality(Sessions))

NoRef == 0

Alloc(heap) == CHOOSE h \in Handles \ DOMAIN heap :
                   \A g \in Handles \ DOMAIN heap : h <= g

\* the references a session's script run holds
Owned(s) == {feature_selection[s], adjusted_df[s]} \ {NoRef}

Release(heap, refs) == [h \in DOMAIN heap \ refs |-> heap[h]]

\* pd.read_excel: a new frame with the file's content
ReadExcel(heap, content) ==
    LET h == Alloc(heap)
    IN  [heap |-> [g \in DOMAIN heap \cup {h} |->
                       IF g = h THEN content ELSE heap[g]],
         ref |-> h]

DfCopyAlias(heap, df) == [heap |-> heap, ref |-> df]

\* line 46: df.copy() (deep): a new frame equal to df
DfCopy(heap, df) ==
    LET h == Alloc(heap)
    IN  [heap |-> [g \in DOMAIN heap \cup {h} |->
                       IF g = h THEN heap[df] ELSE heap[g]],
         ref |-> h]

----------------------------------------------------------------------------
(* adjust_dataframe, lines 52-64 *)

\* Python's min(a, b) and max(a, b): b only when it compares strictly beyond a
PyMin(a, b) == IF b < a THEN b ELSE a

PyMax(a, b) == IF b > a THEN b ELSE a

\* round(x, 5): to the nearest multiple of 10^-5, a half to the even one
Round(x) ==
    LET q == x \div Grain
        r == x % Grain
    IN  IF 2 * r < Grain THEN q * Grain
        ELSE IF 2 * r > Grain THEN (q + 1) * Grain
        ELSE IF q % 2 = 0 THEN q * Grain
        ELSE (q + 1) * Grain

ApplyOperationAlwaysAdd(current_value, rv, op) == current_value + rv

\* lines 57-60
ApplyOperation(current_value, rv, op) ==
    IF op = "+" THEN current_value + rv ELSE current_value - rv

NewValueUnclamped(current_value, rv, op) ==
    Round(ApplyOperation(current_value, rv, op))

\* lines 54-64: the value written to adjusted_df.loc[idx, col]
NewValue(current_value, rv, op) ==
    Round(PyMax(0, PyMin(One, ApplyOperation(current_value, rv, op))))

\* lines 53-64 for one numeric column: read df, write adjusted_df
AdjustColumn(heap, df, adj, col, rv, op) ==
    [heap EXCEPT ![adj].rows =
        [idx \in DOMAIN heap[df].rows |->
            [heap[adj].rows[idx] EXCEPT
                ![col] = NewValue(heap[df].rows[idx][col], rv, op)]]]

RECURSIVE AdjustColumns(_, _, _, _, _, _)
\* lines 52-64: the columns in list order; text + float raises TypeError at
\* the first row of the column, with the columns before it already written
AdjustColumns(heap, df, adj, cols, rv, op) ==
    IF cols = << >> THEN [raised |-> FALSE, heap |-> heap]
    ELSE IF heap[df].rows = << >>
        THEN AdjustColumns(heap, df, adj, Tail(cols), rv, op)
    ELSE IF heap[df].dtype[Head(cols)] # "float64"
        THEN [raised |-> TRUE, heap |-> heap]
    ELSE AdjustColumns(AdjustColumn(heap, df, adj, Head(cols), rv, op),
                       df, adj, Tail(cols), rv, op)

----------------------------------------------------------------------------
(* The history table *)

NextIdReused(last) == 1

\* id INTEGER PRIMARY KEY AUTOINCREMENT: one more than the largest id given
NextId(last) == last + 1

Row(i, rv, op, ts) ==
    [id |-> i, random_value |-> rv, operation |-> op, timestamp |-> ts]

InsertDropsRow(rows, rv, op, ts, last) == rows

\* lines 35-39: INSERT INTO adjustments (random_value, operation, timestamp)
Insert(rows, rv, op, ts, last) ==
    Append(rows, Row(NextId(last), rv, op, ts))

\* ORDER BY timestamp DESC says nothing about rows of equal timestamp: the
\* engine may give them in rowid order ("asc") or against it ("desc")
TieOrders == {"asc", "desc"}

Before(rows, i, j, tie) ==
    \/ rows[i].timestamp > rows[j].timestamp
    \/ /\ rows[i].timestamp = rows[j].timestamp
       /\ IF tie = "asc" THEN i < j ELSE i > j

OrderByTimestampDesc(rows, tie) ==
    [k \in 1..Len(rows) |->
        rows[CHOOSE i \in 1..Len(rows) :
                Cardinality({j \in 1..Len(rows) : Before(rows, j, i, tie)})
                    = k - 1]]

\* lines 71-76: SELECT * FROM adjustments ORDER BY timestamp DESC LIMIT 10
Select(rows, tie) ==
    SubSeq(OrderByTimestampDesc(rows, tie), 1, PyMin(Limit, Len(rows)))

----------------------------------------------------------------------------
(* The script runs of one session *)

NoRet == [adjusted_df |-> NoRef, random_value |-> 0, operation |-> "none"]

\* a script run begins: the frames of the last run are garbage, the file is
\* read again (line 96) and the page is drawn anew
StartRun(s) ==
    LET r == ReadExcel(Release(frames, Owned(s)), uploaded[s])
    IN  /\ frames' = r.heap
        /\ feature_selection' = [feature_selection EXCEPT ![s] = r.ref]
        /\ adjusted_df' = [adjusted_df EXCEPT ![s] = NoRef]
        /\ random_value' = [random_value EXCEPT ![s] = 0]
        /\ operation' = [operation EXCEPT ![s] = "none"]
        /\ ret' = [ret EXCEPT ![s] = NoRet]
        /\ history' = [history EXCEPT ![s] = << >>]
        /\ listed' = [listed EXCEPT ![s] = FALSE]
        /\ stored' = [stored EXCEPT ![s] = 0]

\* line 186-187: except Exception -> st.error; the run ends
Raise(s) ==
    /\ message' = [message EXCEPT ![s] = "error"]
    /\ pc' = [pc EXCEPT ![s] = "idle"]

\* calls that have passed line 156 and not yet reached the INSERT
Pending == Cardinality({t \in Sessions : pc[t] = "generate"})

RejectedNever(sel) == FALSE

\* line 152: if not selected_features
Rejected(sel) == sel = << >>

\* lines 151-159 and 46: the button "Apply Random Adjustment" is pressed
ApplyRandomAdjustment(s, sel, cap) ==
    /\ pc[s] = "idle"
    /\ seq + Pending < cap
    /\ sel \in Selections(uploaded[s])
    /\ selected_features' = [selected_features EXCEPT ![s] = sel]
    /\ IF Rejected(sel)
       THEN /\ StartRun(s)
            /\ message' = [message EXCEPT ![s] = "warning"]
            /\ pc' = [pc EXCEPT ![s] = "history"]
       ELSE LET r == ReadExcel(Release(frames, Owned(s)), uploaded[s])
                c == DfCopy(r.heap, r.ref)
            IN  /\ frames' = c.heap
                /\ feature_selection' = [feature_selection EXCEPT ![s] = r.ref]
                /\ adjusted_df' = [adjusted_df EXCEPT ![s] = c.ref]
                /\ random_value' = [random_value EXCEPT ![s] = 0]
                /\ operation' = [operation EXCEPT ![s] = "none"]
                /\ ret' = [ret EXCEPT ![s] = NoRet]
                /\ history' = [history EXCEPT ![s] = << >>]
                /\ listed' = [listed EXCEPT ![s] = FALSE]
                /\ stored' = [stored EXCEPT ![s] = 0]
                /\ message' = [message EXCEPT ![s] = "none"]
                /\ pc' = [pc EXCEPT ![s] = "generate"]
    /\ UNCHANGED <<db, seq, clock, conn, uploaded, returned>>

CanOperateAlways(s) == TRUE

\* lines 36, 70: sqlite3 refuses execute() and cursor() on a closed connection
CanOperate(s) == conn[s] = "open"

StoreRaisesSwallowed(s, rv, op) ==
    /\ random_value' = [random_value EXCEPT ![s] = rv]
    /\ operation' = [operation EXCEPT ![s] = op]
    /\ pc' = [pc EXCEPT ![s] = "transform"]
    /\ UNCHANGED <<db, seq, clock, stored, message>>

\* lines 35-39 raising: the exception leaves generate_and_store_random and
\* adjust_dataframe and is caught at line 186; no row is written
StoreRaises(s, rv, op) ==
    /\ Raise(s)
    /\ UNCHANGED <<db, seq, clock, random_value, operation, stored>>

\* lines 35-41: the INSERT commits with the time read at line 39, which is
\* the last reading or later: two readings may be equal
StoreCommits(s, rv, op, ts) ==
    /\ db' = Insert(db, rv, op, ts, seq)
    /\ seq' = NextId(seq)
    /\ clock' = ts
    /\ random_value' = [random_value EXCEPT ![s] = rv]
    /\ operation' = [operation EXCEPT ![s] = op]
    /\ stored' = [stored EXCEPT ![s] = NextId(seq)]
    /\ pc' = [pc EXCEPT ![s] = "transform"]
    /\ UNCHANGED message

\* lines 27-41 (called at line 49): draw, then INSERT and commit.  The
\* connection may be closed (ProgrammingError) or the write may be refused
\* (OperationalError: disk full, database locked).
GenerateAndStoreRandom(s, rv, op, fails) ==
    /\ pc[s] = "generate"
    /\ IF ~CanOperate(s) \/ fails
       THEN StoreRaises(s, rv, op)
       ELSE \E ts \in {clock, clock + 1} : StoreCommits(s, rv, op, ts)
    /\ UNCHANGED <<conn, uploaded, frames, feature_selection, adjusted_df,
                   selected_features, ret, history, listed, returned>>

\* lines 52-66, then 156-166: the cells are computed, the tuple is returned
\* and the adjusted table is drawn
Transform(s) ==
    /\ pc[s] = "transform"
    /\ LET out == AdjustColumns(frames, feature_selection[s], adjusted_df[s],
                                selected_features[s], random_value[s],
                                operation[s])
       IN  /\ frames' = out.heap
           /\ IF out.raised
              THEN /\ Raise(s)
                   /\ UNCHANGED <<ret, returned>>
              ELSE /\ ret' = [ret EXCEPT ![s] =
                                [adjusted_df |-> adjusted_df[s],
                                 random_value |-> random_value[s],
                                 operation |-> operation[s]]]
                   /\ returned' = returned + 1
                   /\ pc' = [pc EXCEPT ![s] = "history"]
                   /\ UNCHANGED message
    /\ UNCHANGED <<db, seq, clock, conn, uploaded, feature_selection,
                   adjusted_df, selected_features, random_value, operation,
                   history, listed, stored>>

\* lines 68-76, called at line 182, and lines 183-184
GetAdjustmentHistory(s, tie) ==
    /\ pc[s] = "history"
    /\ IF ~CanOperate(s)
       THEN /\ Raise(s)
            /\ UNCHANGED <<history, listed>>
       ELSE /\ history' = [history EXCEPT ![s] = Select(db, tie)]
            /\ listed' = [listed EXCEPT ![s] = TRUE]
            /\ pc' = [pc EXCEPT ![s] = "idle"]
            /\ UNCHANGED message
    /\ UNCHANGED <<db, seq, clock, conn, uploaded, frames, feature_selection,
                   adjusted_df, selected_features, random_value, operation,
                   ret, stored, returned>>

\* a script run with the button not pressed (line 151 false)
Rerun(s) ==
    /\ pc[s] = "idle"
    /\ StartRun(s)
    /\ message' = [message EXCEPT ![s] = "none"]
    /\ pc' = [pc EXCEPT ![s] = "history"]
    /\ UNCHANGED <<db, seq, clock, conn, uploaded, selected_features, returned>>

\* lines 78-80, the on_click of line 190, and the script run that follows
Close(s) ==
    /\ pc[s] = "idle"
    /\ conn' = [conn EXCEPT ![s] = "closed"]
    /\ StartRun(s)
    /\ message' = [message EXCEPT ![s] = "none"]
    /\ pc' = [pc EXCEPT ![s] = "history"]
    /\ UNCHANGED <<db, seq, clock, uploaded, selected_features, returned>>

----------------------------------------------------------------------------
(* Specifications *)

\* lines 10-25 and 87-88: a new store per session, on a database that may
\* already exist (CREATE TABLE IF NOT EXISTS); here it starts empty
InitWith(files) ==
    /\ db = << >>
    /\ seq = 0
    /\ clock = 0
    /\ conn = [s \in Sessions |-> "open"]
    /\ pc = [s \in Sessions |-> "idle"]
    /\ uploaded \in files
    /\ frames = << >>
    /\ feature_selection = [s \in Sessions |-> NoRef]
    /\ adjusted_df = [s \in Sessions |-> NoRef]
    /\ selected_features = [s \in Sessions |-> << >>]
    /\ random_value = [s \in Sessions |-> 0]
    /\ operation = [s \in Sessions |-> "none"]
    /\ ret = [s \in Sessions |-> NoRet]
    /\ message = [s \in Sessions |-> "none"]
    /\ history = [s \in Sessions |-> << >>]
    /\ listed = [s \in Sessions |-> FALSE]
    /\ stored = [s \in Sessions |-> 0]
    /\ returned = 0

AllSelections == UNION {Selections(t) : t \in Tables}

\* one session; every file, selection and draw
Init == InitWith({f \in [Sessions -> Tables] : f[2] = TableE})

Next ==
    \/ \E sel \in AllSelections : ApplyRandomAdjustment(1, sel, MaxEvents)
    \/ \E rv \in RandomValues, op \in Operations, fails \in BOOLEAN :
           GenerateAndStoreRandom(1, rv, op, fails)
    \/ Transform(1)
    \/ \E tie \in TieOrders : GetAdjustmentHistory(1, tie)
    \/ Rerun(1)
    \/ Close(1)

Spec == Init /\ [][Next]_vars

\* two sessions on one database, their script runs interleaved
InitConc == InitWith({f \in [Sessions -> {TableC}] : TRUE})

NextConc ==
    \E s \in Sessions :
        \/ \E sel \in {<<"f1">>, <<"f1", "f2">>} :
               ApplyRandomAdjustment(s, sel, MaxEvents + 1)
        \/ \E fails \in BOOLEAN : GenerateAndStoreRandom(s, LowRV, "-", fails)
        \/ Transform(s)
        \/ GetAdjustmentHistory(s, "asc")
        \/ Close(s)

SpecConc == InitConc /\ [][NextConc]_vars

\* one session, one file and one draw, past LIMIT rows
InitHistory == InitWith({f \in [Sessions -> {TableA}] : TRUE})

NextHistory ==
    \/ ApplyRandomAdjustment(1, <<"f1">>, Limit + MaxExtra)
    \/ GenerateAndStoreRandom(1, LowRV, "-", FALSE)
    \/ Transform(1)
    \/ \E tie \in TieOrders : GetAdjustmentHistory(1, tie)
    \/ Rerun(1)

SpecHistory == InitHistory /\ [][NextHistory]_vars

----------------------------------------------------------------------------
(* Properties *)

\* the table a session's call was given and the table it returned
Input(s) == uploaded[s]

Output(s) == frames[ret[s].adjusted_df]

Returned(s) == ret[s] # NoRet

\* clamp(x, 0, 1)
Clamp(x) == IF x < 0 THEN 0 ELSE IF x > One THEN One ELSE x

Delta(s) ==
    IF ret[s].operation = "+" THEN ret[s].random_value
    ELSE 0 - ret[s].random_value

\* the rows of db with id i
RowsWithId(i) == {k \in 1..Len(db) : db[k].id = i}

\* C1: after adjust_dataframe(T, S) with S a non-empty selection of
\* non-identifier columns of T, every cell of the returned table in a column
\* of S lies in [0,1] and every other cell, the identifier column included,
\* equals the cell of T.
C1_SelectedInUnitIntervalOthersUnchanged ==
    \A s \in Sessions :
        LET T == Input(s)
            S == Range(selected_features[s])
        IN  (/\ Returned(s)
             /\ S # {}
             /\ S \subseteq Range(T.columns) \ {first_column_name(T)})
            => /\ Output(s).columns = T.columns
               /\ DOMAIN Output(s).rows = DOMAIN T.rows
               /\ \A idx \in DOMAIN T.rows : \A c \in Range(T.columns) :
                      IF c \in S
                      THEN /\ Output(s).rows[idx][c] >= 0
                           /\ Output(s).rows[idx][c] <= One
                      ELSE Output(s).rows[idx][c] = T.rows[idx][c]

\* a call on TableB with only f2 selected has returned: 1.5 became 1, and the
\* unselected -0.05 of f1 is still there
C1_Witness ==
    \E s \in Sessions :
        /\ Returned(s)
        /\ Input(s) = TableB
        /\ selected_features[s] = <<"f2">>
        /\ Output(s).rows[2]["f2"] = One
        /\ Output(s).rows[2]["f1"] = 0 - 50000
        /\ Output(s).rows[2]["id"] = 3000002

\* C2: every call of adjust_dataframe that returns has appended exactly one
\* event, which carries the magnitude and the sign returned to the caller, and
\* the history read right after the call has that event as its first entry.
C2_ReturnedMatchesNewestHistoryEntry ==
    \A s \in Sessions :
        Returned(s) =>
            /\ stored[s] # 0
            /\ Cardinality(RowsWithId(stored[s])) = 1
            /\ \A k \in RowsWithId(stored[s]) :
                   /\ db[k].random_value = ret[s].random_value
                   /\ db[k].operation = ret[s].operation
            /\ listed[s] =>
                   /\ history[s] # << >>
                   /\ history[s][1].id = stored[s]

\* the part of C2 that the code does satisfy: the event of a returned call
\* is in the table once, with the magnitude and sign that were returned
C2_ReturnedMatchesStoredEvent ==
    \A s \in Sessions :
        Returned(s) =>
            /\ stored[s] # 0
            /\ Cardinality(RowsWithId(stored[s])) = 1
            /\ \A k \in RowsWithId(stored[s]) :
                   /\ db[k].random_value = ret[s].random_value
                   /\ db[k].operation = ret[s].operation

\* C3: the history listing holds min(10, n) of the n recorded events, they
\* are the most recently recorded ones, and they are ordered by timestamp
\* descending with equal timestamps ordered by id descending; with nothing
\* recorded it is empty.  (One session: the table is as it was read.)
C3_HistoryIsNewestFirst ==
    listed[1] =>
        LET h == history[1]
            n == Len(db)
            m == IF n < Limit THEN n ELSE Limit
        IN  /\ Len(h) = m
            /\ {h[k].id : k \in 1..Len(h)} = {db[k].id : k \in (n - m + 1)..n}
            /\ \A i, j \in 1..Len(h) :
                   i < j =>
                       \/ h[i].timestamp > h[j].timestamp
                       \/ /\ h[i].timestamp = h[j].timestamp
                          /\ h[i].id > h[j].id

\* the part of C3 that the code does satisfy: at most LIMIT rows, min(10, n)
\* of them, rows of the table, timestamps never ascending
C3_HistoryIsBoundedAndSorted ==
    listed[1] =>
        LET h == history[1]
            n == Len(db)
        IN  /\ Len(h) <= Limit
            /\ Len(h) = (IF n < Limit THEN n ELSE Limit)
            /\ Range(h) \subseteq Range(db)
            /\ \A i, j \in 1..Len(h) :
                   i < j => h[i].timestamp >= h[j].timestamp

\* C3 fails only on equal timestamps: with all timestamps of the table
\* distinct the listing is as C3 says
C3_HoldsWithDistinctTimestamps ==
    (\A i, j \in 1..Len(db) : i # j => db[i].timestamp # db[j].timestamp)
        => C3_HistoryIsNewestFirst

\* a session's step that ends a record or recent call on its store
CallEnds(s) == pc[s] \in {"generate", "history"} /\ pc'[s] # pc[s]

C4_TwoStates == \A s \in Sessions : conn[s] \in {"open", "closed"}

C4_Step ==
    \A s \in Sessions :
        /\ conn[s] = "closed" => conn'[s] = "closed"
        /\ conn'[s] # conn[s] => Close(s)
        /\ (conn[s] = "closed" /\ CallEnds(s)) =>
               /\ message'[s] = "error"
               /\ pc'[s] = "idle"
               /\ db' = db
               /\ seq' = seq
               /\ ret'[s] = NoRet
               /\ ~listed'[s]

\* C4: a store is Open or Closed; it changes only from Open to Closed, only
\* by close(), and never back; on a Closed store every record or recent call
\* ends in an error and inserts no row.
C4_ClosedIsFinalAndRefusesCalls == []C4_TwoStates /\ [][C4_Step]_vars

\* an adjustment was asked of a closed store: the call got as far as the
\* INSERT, the run ended in an error and the table is empty
C4_Witness ==
    \E s \in Sessions :
        /\ conn[s] = "closed"
        /\ adjusted_df[s] # NoRef
        /\ selected_features[s] # << >>
        /\ message[s] = "error"
        /\ pc[s] = "idle"
        /\ db = << >>

C5_ReturnedImpliesPersisted ==
    \A s \in Sessions :
        Returned(s) => stored[s] # 0 /\ RowsWithId(stored[s]) # {}

\* the step of generate_and_store_random in which the write fails
C5_Step ==
    \A s \in Sessions :
        (pc[s] = "generate" /\ pc'[s] # pc[s] /\ db' = db) =>
            /\ message'[s] = "error"
            /\ pc'[s] = "idle"
            /\ ret'[s] = NoRet

\* C5: a failed history write reaches the caller as an error, and a call
\* returns an adjusted table only if its event was persisted.
C5_FailedWriteReturnsNoTable ==
    []C5_ReturnedImpliesPersisted /\ [][C5_Step]_vars

\* the write was refused on an open store: error shown, nothing returned
C5_Witness ==
    \E s \in Sessions :
        /\ conn[s] = "open"
        /\ adjusted_df[s] # NoRef
        /\ stored[s] = 0
        /\ message[s] = "error"
        /\ pc[s] = "idle"
        /\ ~Returned(s)

C6_Warned ==
    \A s \in Sessions :
        message[s] = "warning" =>
            /\ selected_features[s] = << >>
            /\ ~Returned(s)
            /\ adjusted_df[s] = NoRef
            /\ stored[s] = 0
            /\ frames[feature_selection[s]] = Input(s)

C6_Step ==
    \A s \in Sessions :
        ApplyRandomAdjustment(s, << >>, MaxEvents) =>
            /\ message'[s] = "warning"
            /\ db' = db
            /\ seq' = seq
            /\ pc'[s] = "history"

\* C6: a request with an empty selection is answered with a warning; it
\* creates no history row, produces no adjusted table and leaves the table
\* as it was.
C6_EmptySelectionRejected == []C6_Warned /\ [][C6_Step]_vars

\* the run of a rejected request has ended, with the history table drawn empty
C6_Witness ==
    \E s \in Sessions :
        /\ message[s] = "warning"
        /\ pc[s] = "idle"
        /\ listed[s]
        /\ history[s] = << >>
        /\ db = << >>
        /\ Input(s) = TableA

C7_RowsWhole ==
    \A k \in 1..Len(db) :
        /\ db[k].id \in 1..seq
        /\ db[k].random_value \in LowRV..(HighRV - 1)
        /\ db[k].operation \in Operations
        /\ db[k].timestamp \in 0..clock

C7_IdsIncrease ==
    \A i, j \in 1..Len(db) : i < j => db[i].id < db[j].id

C7_Step ==
    /\ Len(db') >= Len(db)
    /\ SubSeq(db', 1, Len(db)) = db
    /\ db' # db =>
           /\ Len(db') = Len(db) + 1
           /\ \A k \in 1..Len(db) : db'[Len(db')].id > db[k].id
           /\ db'[Len(db')].id > seq

\* C7: under every interleaving of the sessions' calls each record gets an id
\* greater than every id given before, no two rows share an id, every row in
\* the table is whole, and no recorded row is changed or removed.
C7_IdsUniqueIncreasingRowsKept ==
    [](C7_RowsWhole /\ C7_IdsIncrease) /\ [][C7_Step]_vars

\* both sessions have recorded and neither call has finished
C7_Witness ==
    /\ pc[1] = "transform"
    /\ pc[2] = "transform"
    /\ stored[1] = 2
    /\ stored[2] = 1
    /\ Len(db) = 2

\* C8: adjust_dataframe leaves its input table as it was, whether it returns
\* or raises, and the table it returns is another object.
C8_InputNotMutated ==
    \A s \in Sessions :
        /\ feature_selection[s] # NoRef =>
               frames[feature_selection[s]] = Input(s)
        /\ Returned(s) => ret[s].adjusted_df # feature_selection[s]

\* the call wrote column f1 of the copy and then raised on the text of f2
C8_Witness ==
    \E s \in Sessions :
        /\ Input(s) = TableC
        /\ selected_features[s] = <<"f1", "f2">>
        /\ message[s] = "error"
        /\ stored[s] # 0
        /\ frames[adjusted_df[s]].rows[1]["f1"] # Input(s).rows[1]["f1"]

\* C9 as stated: one magnitude in [0.01, 0.1) and one sign for the call, and
\* each selected cell becomes clamp(currentValue + sign*magnitude, 0, 1).
C9_NewValueIsClampedSum ==
    \A s \in Sessions :
        Returned(s) =>
            /\ ret[s].random_value >= LowRV
            /\ ret[s].random_value < HighRV
            /\ ret[s].operation \in Operations
            /\ \A idx \in DOMAIN Input(s).rows :
                   \A c \in Range(selected_features[s]) :
                       Output(s).rows[idx][c] =
                           Clamp(Input(s).rows[idx][c] + Delta(s))

\* C9 amended: each selected cell becomes clamp(currentValue +
\* sign*magnitude, 0, 1) rounded to 5 decimal digits; a sum below 0 gives
\* exactly 0 and a sum above 1 exactly 1, whatever the input value.
C9_NewValueIsRoundedClampedSum ==
    \A s \in Sessions :
        Returned(s) =>
            /\ ret[s].random_value >= LowRV
            /\ ret[s].random_value < HighRV
            /\ ret[s].operation \in Operations
            /\ \A idx \in DOMAIN Input(s).rows :
                   \A c \in Range(selected_features[s]) :
                       LET sum == Input(s).rows[idx][c] + Delta(s)
                           new == Output(s).rows[idx][c]
                       IN  /\ new = Round(Clamp(sum))
                           /\ sum < 0 => new = 0
                           /\ sum > One => new = One

\* TableB with both columns selected, 0.054321 subtracted: -0.05 gives 0,
\* 1.5 gives 1 and 0.123456 gives 0.06914 (0.069135 rounded)
C9_Witness ==
    \E s \in Sessions :
        /\ Returned(s)
        /\ Input(s) = TableB
        /\ selected_features[s] = <<"f2", "f1">>
        /\ ret[s].random_value = 54321
        /\ ret[s].operation = "-"
        /\ Output(s).rows[2]["f1"] = 0
        /\ Output(s).rows[2]["f2"] = One
        /\ Output(s).rows[1]["f1"] = 69140

C10_EventsAtLeastTables == Len(db) >= returned

C10_InsertedBeforeCells ==
    \A s \in Sessions :
        /\ pc[s] = "generate" =>
               stored[s] = 0 /\ frames[adjusted_df[s]] = Input(s)
        /\ pc[s] = "transform" =>
               RowsWithId(stored[s]) # {} /\ frames[adjusted_df[s]] = Input(s)
        /\ (message[s] = "error" /\ stored[s] # 0) =>
               RowsWithId(stored[s]) # {} /\ ~Returned(s)

C10_Step == Len(db') >= Len(db) /\ SubSeq(db', 1, Len(db)) = db

\* C10: the event is inserted before any cell is computed and is never
\* rolled back: after a transform that fails the event is still in the
\* history with no table returned, and there are always at least as many
\* events as returned tables.
C10_EventStaysWhenTransformFails ==
    [](C10_EventsAtLeastTables /\ C10_InsertedBeforeCells)
        /\ [][C10_Step]_vars

\* the transform raised on a text column after the insert
C10_Witness ==
    \E s \in Sessions :
        /\ message[s] = "error"
        /\ pc[s] = "idle"
        /\ stored[s] # 0
        /\ RowsWithId(stored[s]) # {}
        /\ ~Returned(s)
        /\ Len(db) > returned

====
